---- MODULE Spec2Model ----
(***************************************************************************)
(* Model of the Markdown link engine of CopilotRetrievalAPIDemo            *)
(* (Utils.extractMarkdownLinks, Utils.replaceMarkdownLinksWithOrder) and   *)
(* of the part of CustomAgent._invokeAgent that calls them.                *)
(*                                                                         *)
(* A document is a sequence of characters, each a string.  Offsets are the *)
(* 0-based offsets of the JavaScript source, a span is [start, end).       *)
(* Regular expressions are kept as syntax trees, written next to the       *)
(* literal of the source, and run by a backtracking matcher that follows   *)
(* the priority order of ECMAScript (greedy before lazy, left alternative  *)
(* before right).                                                          *)
(***************************************************************************)
EXTENDS Integers, Sequences, FiniteSets, TLC

(***************************************************************************)
(* Characters                                                              *)
(***************************************************************************)
\* \s restricted to the characters documents are built from
WS == {" ", "\n", "\r", "\t"}

\* the character ` (a TLA+ string cannot hold it)
Backtick == "BACKTICK"

\* what ^ and $ look at under the m flag
LineTerminators == {"\n", "\r"}

UpperCase ==
  <<"A", "B", "C", "D", "E", "F", "G", "H", "I", "J", "K", "L", "M",
    "N", "O", "P", "Q", "R", "S", "T", "U", "V", "W", "X", "Y", "Z">>

LowerCase ==
  <<"a", "b", "c", "d", "e", "f", "g", "h", "i", "j", "k", "l", "m",
    "n", "o", "p", "q", "r", "s", "t", "u", "v", "w", "x", "y", "z">>

\* a-zA-Z
Letters == {UpperCase[i] : i \in 1..Len(UpperCase)} \cup {LowerCase[i] : i \in 1..Len(LowerCase)}

\* 0-9
DigitChars == {"0", "1", "2", "3", "4", "5", "6", "7", "8", "9"}

\* String.prototype.toLowerCase on one character
LowerChar(c) ==
  IF \E i \in 1..Len(UpperCase) : UpperCase[i] = c
  THEN LowerCase[CHOOSE i \in 1..Len(UpperCase) : UpperCase[i] = c]
  ELSE c

(***************************************************************************)
(* JavaScript string primitives                                            *)
(***************************************************************************)
\* s.slice(a, b) for 0 <= a, b <= s.length
Slice(s, a, b) == IF a >= b THEN <<>> ELSE SubSeq(s, a + 1, b)

\* s.slice(a)
SliceFrom(s, a) == Slice(s, a, Len(s))

RECURSIVE TrimStart(_)
TrimStart(s) ==
  IF Len(s) > 0 /\ Head(s) \in WS THEN TrimStart(Tail(s)) ELSE s

RECURSIVE TrimEnd(_)
TrimEnd(s) ==
  IF Len(s) > 0 /\ s[Len(s)] \in WS THEN TrimEnd(SubSeq(s, 1, Len(s) - 1)) ELSE s

\* s.trim()
Trim(s) == TrimEnd(TrimStart(s))

\* s.toLowerCase()
ToLowerCase(s) == [i \in 1..Len(s) |-> LowerChar(s[i])]

\* s.indexOf(c): 0-based, -1 when absent
RECURSIVE IndexOfFrom(_, _, _)
IndexOfFrom(s, c, i) ==
  IF i >= Len(s) THEN -1
  ELSE IF s[i + 1] = c THEN i
  ELSE IndexOfFrom(s, c, i + 1)

IndexOf(s, c) == IndexOfFrom(s, c, 0)

\* s.replace(/[<>]/g, "")
RECURSIVE StripAngles(_)
StripAngles(s) ==
  IF Len(s) = 0 THEN <<>>
  ELSE IF Head(s) \in {"<", ">"} THEN StripAngles(Tail(s))
  ELSE <<Head(s)>> \o StripAngles(Tail(s))

\* s.split(/\s+/)[0]: the text before the first whitespace character
RECURSIVE FirstToken(_)
FirstToken(s) ==
  IF Len(s) = 0 \/ Head(s) \in WS THEN <<>>
  ELSE <<Head(s)>> \o FirstToken(Tail(s))

\* decimal digits of a positive number, as in the template `[${i + 1}]`
DigitChar(d) ==
  CASE d = 0 -> "0" [] d = 1 -> "1" [] d = 2 -> "2" [] d = 3 -> "3"
    [] d = 4 -> "4" [] d = 5 -> "5" [] d = 6 -> "6" [] d = 7 -> "7"
    [] d = 8 -> "8" [] d = 9 -> "9"

RECURSIVE Digits(_)
Digits(n) ==
  IF n < 10 THEN <<DigitChar(n)>>
  ELSE Digits(n \div 10) \o <<DigitChar(n % 10)>>

(***************************************************************************)
(* Regular expressions: syntax trees                                       *)
(***************************************************************************)
Lit(c) == [t |-> "set", neg |-> FALSE, cs |-> {c}]
In(S) == [t |-> "set", neg |-> FALSE, cs |-> S]
NotIn(S) == [t |-> "set", neg |-> TRUE, cs |-> S]
Cat(rs) == [t |-> "cat", rs |-> rs]
Alt(a, b) == [t |-> "alt", a |-> a, b |-> b]
\* max = -1: no upper limit
Rep(r, min, max, greedy) ==
  [t |-> "rep", r |-> r, min |-> min, max |-> max, greedy |-> greedy]
Star(r) == Rep(r, 0, -1, TRUE)
Plus(r) == Rep(r, 1, -1, TRUE)
Opt(r) == Rep(r, 0, 1, TRUE)
LazyStar(r) == Rep(r, 0, -1, FALSE)
Grp(n, r) == [t |-> "grp", n |-> n, r |-> r]
BackRef(n) == [t |-> "ref", n |-> n]
\* ^ and $ under the m flag
Bol == [t |-> "bol"]
Eol == [t |-> "eol"]
\* ^ and $ without the m flag
Bos == [t |-> "bos"]
Eos == [t |-> "eos"]
\* (?<!c)
NotAfter(c) == [t |-> "nlb", c |-> c]

Undef == <<-1, -1>>
NoCaps == <<Undef, Undef, Undef>>
Fail == [pos |-> -1, caps |-> NoCaps]

(***************************************************************************)
(* The matcher.  todo is the list of nodes still to match from st.pos; the *)
(* result is the first complete match in priority order, or Fail.  Every   *)
(* repeated node of the expressions below consumes at least one character, *)
(* so the empty-iteration rule of ECMAScript never applies.                *)
(***************************************************************************)
RECURSIVE Match(_, _, _)
Match(s, todo, st) ==
  IF Len(todo) = 0 THEN st
  ELSE
    LET r == Head(todo)
        rest == Tail(todo)
    IN CASE r.t = "set" ->
              IF st.pos < Len(s) /\ ((s[st.pos + 1] \in r.cs) # r.neg)
              THEN Match(s, rest, [st EXCEPT !.pos = @ + 1])
              ELSE Fail
         [] r.t = "cat" -> Match(s, r.rs \o rest, st)
         [] r.t = "alt" ->
              LET m == Match(s, <<r.a>> \o rest, st)
              IN IF m.pos >= 0 THEN m ELSE Match(s, <<r.b>> \o rest, st)
         [] r.t = "rep" ->
              LET again == [r EXCEPT !.min = IF @ > 0 THEN @ - 1 ELSE 0,
                                     !.max = IF @ > 0 THEN @ - 1 ELSE @]
                  more == IF r.max = 0 THEN Fail
                          ELSE Match(s, <<r.r, again>> \o rest, st)
                  stop == IF r.min > 0 THEN Fail ELSE Match(s, rest, st)
              IN IF r.greedy
                 THEN IF more.pos >= 0 THEN more ELSE stop
                 ELSE IF stop.pos >= 0 THEN stop ELSE more
         [] r.t = "grp" ->
              Match(s, <<r.r, [t |-> "end", n |-> r.n, from |-> st.pos]>> \o rest, st)
         [] r.t = "end" ->
              Match(s, rest, [st EXCEPT !.caps[r.n] = <<r.from, st.pos>>])
         [] r.t = "ref" ->
              LET c == st.caps[r.n]
                  w == IF c = Undef THEN <<>> ELSE Slice(s, c[1], c[2])
              IN IF st.pos + Len(w) <= Len(s)
                    /\ Slice(s, st.pos, st.pos + Len(w)) = w
                 THEN Match(s, rest, [st EXCEPT !.pos = @ + Len(w)])
                 ELSE Fail
         [] r.t = "bol" ->
              IF st.pos = 0 \/ s[st.pos] \in LineTerminators
              THEN Match(s, rest, st) ELSE Fail
         [] r.t = "eol" ->
              IF st.pos = Len(s) \/ s[st.pos + 1] \in LineTerminators
              THEN Match(s, rest, st) ELSE Fail
         [] r.t = "bos" -> IF st.pos = 0 THEN Match(s, rest, st) ELSE Fail
         [] r.t = "eos" -> IF st.pos = Len(s) THEN Match(s, rest, st) ELSE Fail
         [] r.t = "nlb" ->
              IF st.pos > 0 /\ s[st.pos] = r.c
              THEN Fail ELSE Match(s, rest, st)

\* re.exec(s) with lastIndex = from: the leftmost match starting at or after
\* from, as [index, end, caps]; index = -1 when there is none
RECURSIVE Exec(_, _, _)
Exec(s, re, from) ==
  IF from > Len(s) THEN [index |-> -1, end |-> -1, caps |-> NoCaps]
  ELSE LET m == Match(s, <<re>>, [pos |-> from, caps |-> NoCaps])
       IN IF m.pos >= 0
          THEN [index |-> from, end |-> m.pos, caps |-> m.caps]
          ELSE Exec(s, re, from + 1)

\* the matches of a g-flagged expression, left to right without overlap:
\* the `while ((m = re.exec(s)) !== null)` loop and s.matchAll(re)
RECURSIVE MatchAll(_, _, _)
MatchAll(s, re, from) ==
  LET m == Exec(s, re, from)
  IN IF m.index < 0 THEN <<>>
     ELSE <<m>> \o MatchAll(s, re, IF m.end > m.index THEN m.end ELSE m.end + 1)

\* the text of capture group n of match m, <<>> when it did not take part
Group(s, m, n) ==
  IF m.caps[n] = Undef THEN <<>> ELSE Slice(s, m.caps[n][1], m.caps[n][2])

(***************************************************************************)
(* replaceMarkdownLinksWithOrder: helpers and expressions                  *)
(***************************************************************************)
\* const intersects = (a, b) => !(a.end <= b.start || b.end <= a.start)
intersects(a, b) == ~(a.end <= b.start \/ b.end <= a.start)

\* isInsideExcluded that asks whether an excluded range lies inside the span
isInsideExcluded_Contains(start, end, excluded) ==
  \E k \in 1..Len(excluded) :
     start <= excluded[k].start /\ excluded[k].end <= end

\* excluded.some(r => intersects({ start, end }, r))
isInsideExcluded(start, end, excluded) ==
  \E k \in 1..Len(excluded) :
     intersects([start |-> start, end |-> end], excluded[k])

\* fencedRE with the end of the text accepted as the closing fence:
\* /(```|~~~)[^\n]*\n[\s\S]*?(?:\n\1|$)/g
fencedRE_ToEnd ==
  Cat(<<Grp(1, Alt(Cat(<<Lit(Backtick), Lit(Backtick), Lit(Backtick)>>),
                   Cat(<<Lit("~"), Lit("~"), Lit("~")>>))),
        Star(NotIn({"\n"})), Lit("\n"),
        LazyStar(NotIn({})), Alt(Cat(<<Lit("\n"), BackRef(1)>>), Eos)>>)

\* /(```|~~~)[^\n]*\n[\s\S]*?\n\1/g
fencedRE ==
  Cat(<<Grp(1, Alt(Cat(<<Lit(Backtick), Lit(Backtick), Lit(Backtick)>>),
                   Cat(<<Lit("~"), Lit("~"), Lit("~")>>))),
        Star(NotIn({"\n"})), Lit("\n"),
        LazyStar(NotIn({})), Lit("\n"), BackRef(1)>>)

\* /`[^`\n]*`/g
inlineCodeRE == Cat(<<Lit(Backtick), Star(NotIn({Backtick, "\n"})), Lit(Backtick)>>)

\* /^\s{0,3}\[[^\]\r\n]+\]:[^\n]*$/gm
defLineRE ==
  Cat(<<Bol, Rep(In(WS), 0, 3, TRUE),
        Lit("["), Plus(NotIn({"]", "\r", "\n"})), Lit("]"), Lit(":"),
        Star(NotIn({"\n"})), Eol>>)

\* /!?\[[^\]]*\]\([^)]+\)/g
inlineLinkRE ==
  Cat(<<Opt(Lit("!")), Lit("["), Star(NotIn({"]"})), Lit("]"),
        Lit("("), Plus(NotIn({")"})), Lit(")")>>)

\* refLinkRE with white space allowed between the two bracket pairs
refLinkRE_Spaced ==
  Cat(<<Opt(Lit("!")), Lit("["), Plus(NotIn({"]"})), Lit("]"), Star(In(WS)),
        Lit("["), Star(NotIn({"]", "\r", "\n"})), Lit("]")>>)

\* /!?\[[^\]]+\]\[[^\]\r\n]*\]/g
refLinkRE ==
  Cat(<<Opt(Lit("!")), Lit("["), Plus(NotIn({"]"})), Lit("]"),
        Lit("["), Star(NotIn({"]", "\r", "\n"})), Lit("]")>>)

\* /<([^>\s]+)>/g
autolinkRE == Cat(<<Lit("<"), Grp(1, Plus(NotIn({">"} \cup WS))), Lit(">")>>)

\* /^[a-zA-Z][a-zA-Z0-9+.-]*:[^\s]+$/
looksLikeUrlRE ==
  Cat(<<Bos, In(Letters), Star(In(Letters \cup DigitChars \cup {"+", ".", "-"})),
        Lit(":"), Plus(NotIn(WS)), Eos>>)

\* /^[^@\s]+@[^@\s]+\.[^@\s]+$/
looksLikeEmailRE ==
  Cat(<<Bos, Plus(NotIn({"@"} \cup WS)), Lit("@"), Plus(NotIn({"@"} \cup WS)),
        Lit("."), Plus(NotIn({"@"} \cup WS)), Eos>>)

\* re.test(s)
Test(re, s) == Exec(s, re, 0).index >= 0

Range(m) == [start |-> m.index, end |-> m.end]

\* lines 139-142: every fenced block is excluded
RECURSIVE FencedRanges(_, _)
FencedRanges(ms, k) ==
  IF k > Len(ms) THEN <<>> ELSE <<Range(ms[k])>> \o FencedRanges(ms, k + 1)

\* lines 145-149: inline code outside what is excluded so far
RECURSIVE AddInlineCode(_, _, _)
AddInlineCode(ms, k, excluded) ==
  IF k > Len(ms) THEN excluded
  ELSE AddInlineCode(ms, k + 1,
         IF ~isInsideExcluded(ms[k].index, ms[k].end, excluded)
         THEN Append(excluded, Range(ms[k])) ELSE excluded)

\* lines 152-155: every link definition line is excluded
RECURSIVE AddDefLines(_, _, _)
AddDefLines(ms, k, excluded) ==
  IF k > Len(ms) THEN excluded
  ELSE AddDefLines(ms, k + 1, Append(excluded, Range(ms[k])))

\* lines 136-155
ExcludedRanges(markdown) ==
  AddDefLines(MatchAll(markdown, defLineRE, 0), 1,
    AddInlineCode(MatchAll(markdown, inlineCodeRE, 0), 1,
      FencedRanges(MatchAll(markdown, fencedRE, 0), 1)))

\* lines 162-166 and 170-174: m[0].startsWith('!') skips, the rest is kept
\* unless it touches an excluded range
RECURSIVE AddLinkHits(_, _, _, _, _)
AddLinkHits(markdown, ms, k, excluded, hits) ==
  IF k > Len(ms) THEN hits
  ELSE AddLinkHits(markdown, ms, k + 1, excluded,
         IF markdown[ms[k].index + 1] = "!" THEN hits
         ELSE IF ~isInsideExcluded(ms[k].index, ms[k].end, excluded)
              THEN Append(hits, Range(ms[k])) ELSE hits)

\* lines 178-188
RECURSIVE AddAutolinkHits(_, _, _, _, _)
AddAutolinkHits(markdown, ms, k, excluded, hits) ==
  IF k > Len(ms) THEN hits
  ELSE LET inner == Group(markdown, ms[k], 1)
           looksLikeUrl == Test(looksLikeUrlRE, inner)
           looksLikeEmail == Test(looksLikeEmailRE, inner)
       IN AddAutolinkHits(markdown, ms, k + 1, excluded,
            IF (looksLikeUrl \/ looksLikeEmail)
               /\ ~isInsideExcluded(ms[k].index, ms[k].end, excluded)
            THEN Append(hits, Range(ms[k])) ELSE hits)

\* lines 158-188: the hits in the order the three passes push them
CollectHits(markdown, excluded) ==
  AddAutolinkHits(markdown, MatchAll(markdown, autolinkRE, 0), 1, excluded,
    AddLinkHits(markdown, MatchAll(markdown, refLinkRE, 0), 1, excluded,
      AddLinkHits(markdown, MatchAll(markdown, inlineLinkRE, 0), 1, excluded, <<>>)))

\* hits.sort((a, b) => a.start - b.start): Array.prototype.sort is stable
RECURSIVE InsertByStart(_, _)
InsertByStart(sorted, h) ==
  IF Len(sorted) = 0 THEN <<h>>
  ELSE IF sorted[Len(sorted)].start <= h.start THEN Append(sorted, h)
  ELSE Append(InsertByStart(SubSeq(sorted, 1, Len(sorted) - 1), h),
              sorted[Len(sorted)])

RECURSIVE SortByStart(_, _, _)
SortByStart(hits, k, sorted) ==
  IF k > Len(hits) THEN sorted
  ELSE SortByStart(hits, k + 1, InsertByStart(sorted, hits[k]))

\* `[${i + 1}]`
Marker(n) == <<"[">> \o Digits(n) \o <<"]">>

\* lines 194-200: the forEach over the sorted hits, then the remainder
RECURSIVE BuildResult(_, _, _, _, _)
BuildResult(markdown, hits, i, cursor, result) ==
  IF i > Len(hits) THEN result \o SliceFrom(markdown, cursor)
  ELSE BuildResult(markdown, hits, i + 1, hits[i].end,
         result \o Slice(markdown, cursor, hits[i].start) \o Marker(i))

\* the call as a whole: its locals excluded and hits (sorted) and its result
replaceMarkdownLinksWithOrder(markdown) ==
  LET excluded == ExcludedRanges(markdown)
      hits == SortByStart(CollectHits(markdown, excluded), 1, <<>>)
  IN [excluded |-> excluded, hits |-> hits,
      result |-> BuildResult(markdown, hits, 1, 0, <<>>)]

(***************************************************************************)
(* extractMarkdownLinks                                                    *)
(***************************************************************************)
\* /^\s{0,3}\[([^\]\r\n]+)\]:\s*<?([^\s>]+)>?(?:\s+["'(].*?["')])?\s*$/gim
\* (the i flag changes nothing: the expression names no letter)
refDefRe ==
  Cat(<<Bol, Rep(In(WS), 0, 3, TRUE),
        Lit("["), Grp(1, Plus(NotIn({"]", "\r", "\n"}))), Lit("]"), Lit(":"),
        Star(In(WS)), Opt(Lit("<")), Grp(2, Plus(NotIn({">"} \cup WS))),
        Opt(Lit(">")),
        Opt(Cat(<<Plus(In(WS)), In({"\"", "'", "("}),
                  LazyStar(NotIn(LineTerminators)), In({"\"", "'", ")"})>>)),
        Star(In(WS)), Eol>>)

\* /(?<!!)\[(?<text>[^\]]*)\]\((?<inside>[^)]+)\)|!\[(?<img>[^\]]*)\]\([^)]+\)/g
\* groups: text = 1, inside = 2, img = 3
inlineLinkRe ==
  Alt(Cat(<<NotAfter("!"), Lit("["), Grp(1, Star(NotIn({"]"}))), Lit("]"),
            Lit("("), Grp(2, Plus(NotIn({")"}))), Lit(")")>>),
      Cat(<<Lit("!"), Lit("["), Grp(3, Star(NotIn({"]"}))), Lit("]"),
            Lit("("), Plus(NotIn({")"})), Lit(")")>>))

\* /<([a-zA-Z][a-zA-Z0-9+.-]*:[^>\s]+)>/g
autolinkRe ==
  Cat(<<Lit("<"),
        Grp(1, Cat(<<In(Letters),
                     Star(In(Letters \cup DigitChars \cup {"+", ".", "-"})),
                     Lit(":"), Plus(NotIn({">"} \cup WS))>>)),
        Lit(">")>>)

\* /(?<!!)\[(?<text>[^\]]+)\]\[(?<id>[^\]\r\n]*)\]|!\[(?<img2>[^\]]+)\]\[[^\]\r\n]*\]/g
\* groups: text = 1, id = 2, img2 = 3
refLinkRe ==
  Alt(Cat(<<NotAfter("!"), Lit("["), Grp(1, Plus(NotIn({"]"}))), Lit("]"),
            Lit("["), Grp(2, Star(NotIn({"]", "\r", "\n"}))), Lit("]")>>),
      Cat(<<Lit("!"), Lit("["), Grp(3, Plus(NotIn({"]"}))), Lit("]"),
            Lit("["), Star(NotIn({"]", "\r", "\n"})), Lit("]")>>))

\* the harvest with a Map that keeps the first URL set for an id
RECURSIVE CollectReferences_FirstWins(_, _, _, _)
CollectReferences_FirstWins(markdown, ms, k, references) ==
  IF k > Len(ms) THEN references
  ELSE LET id == ToLowerCase(Trim(Group(markdown, ms[k], 1)))
           url == Trim(Group(markdown, ms[k], 2))
       IN CollectReferences_FirstWins(markdown, ms, k + 1,
                                      references @@ (id :> url))

\* lines 47-52: references.set(id, url) for every definition, in text order
RECURSIVE CollectReferences(_, _, _, _)
CollectReferences(markdown, ms, k, references) ==
  IF k > Len(ms) THEN references
  ELSE LET id == ToLowerCase(Trim(Group(markdown, ms[k], 1)))
           url == Trim(Group(markdown, ms[k], 2))
       IN CollectReferences(markdown, ms, k + 1, (id :> url) @@ references)

\* references.get(id) ?? ""
GetReference(references, id) ==
  IF id \in DOMAIN references THEN references[id] ELSE <<>>

\* push without the `if (!url) return`
push_KeepEmpty(results, title, url, kind, start) ==
  Append(results,
    [title |-> title, url |-> url, kind |-> kind, start |-> start])

\* lines 55-58: push drops an empty url.  A found link carries, beside the
\* title and url of a MarkdownLink, the pass that found it and its offset.
push(results, title, url, kind, start) ==
  IF url = <<>> THEN results
  ELSE Append(results,
         [title |-> title, url |-> url, kind |-> kind, start |-> start])

\* lines 75-83: the URL inside the parentheses
InsideUrl(inside) ==
  IF Len(inside) > 0 /\ Head(inside) = "<"
  THEN LET gt == IndexOf(inside, ">")
       IN IF gt > 0 THEN Trim(Slice(inside, 1, gt))
          ELSE Trim(StripAngles(inside))
  ELSE Trim(FirstToken(inside))

\* lines 66-86
RECURSIVE InlinePass(_, _, _, _)
InlinePass(markdown, ms, k, results) ==
  IF k > Len(ms) THEN results
  ELSE InlinePass(markdown, ms, k + 1,
         IF ms[k].caps[3] # Undef THEN results
         ELSE LET text == Trim(Group(markdown, ms[k], 1))
                  inside == Trim(Group(markdown, ms[k], 2))
              IN push(results, text, InsideUrl(inside), "inline", ms[k].index))

\* lines 89-94
RECURSIVE AutolinkPass(_, _, _, _)
AutolinkPass(markdown, ms, k, results) ==
  IF k > Len(ms) THEN results
  ELSE AutolinkPass(markdown, ms, k + 1,
         push(results, <<>>, Trim(Group(markdown, ms[k], 1)),
              "autolink", ms[k].index))

\* lines 102-112
RECURSIVE ReferencePass(_, _, _, _, _)
ReferencePass(markdown, ms, k, references, results) ==
  IF k > Len(ms) THEN results
  ELSE ReferencePass(markdown, ms, k + 1, references,
         IF ms[k].caps[3] # Undef THEN results
         ELSE LET text == Trim(Group(markdown, ms[k], 1))
                  rawId == Trim(Group(markdown, ms[k], 2))
                  id == ToLowerCase(IF rawId # <<>> THEN rawId ELSE text)
                  url == GetReference(references, id)
              IN push(results, text, url, "reference", ms[k].index))

\* lines 44-52: the Map of reference definitions
References(markdown) ==
  CollectReferences(markdown, MatchAll(markdown, refDefRe, 0), 1, <<>>)

\* extractMarkdownLinks with the autolink pass run before the inline pass
extractMarkdownLinks_AutolinksFirst(markdown) ==
  ReferencePass(markdown, MatchAll(markdown, refLinkRe, 0), 1, References(markdown),
    InlinePass(markdown, MatchAll(markdown, inlineLinkRe, 0), 1,
      AutolinkPass(markdown, MatchAll(markdown, autolinkRe, 0), 1, <<>>)))

\* the call as a whole: the found links in the order they are pushed
extractMarkdownLinks(markdown) ==
  ReferencePass(markdown, MatchAll(markdown, refLinkRe, 0), 1, References(markdown),
    AutolinkPass(markdown, MatchAll(markdown, autolinkRe, 0), 1,
      InlinePass(markdown, MatchAll(markdown, inlineLinkRe, 0), 1, <<>>)))

\* the MarkdownLink[] the caller receives
MarkdownLinks(found) ==
  [i \in 1..Len(found) |-> [title |-> found[i].title, url |-> found[i].url]]

(***************************************************************************)
(* Documents                                                               *)
(***************************************************************************)
\* the pieces documents are put together from
Tokens ==
  << <<"[", "a", "]", "(", "u", ")">>,           \* [a](u)   inline link
     <<"[", "a", "]">>,                          \* [a]      bracketed text
     <<"[", "]">>,                               \* []       empty bracket pair
     <<"<", "s", ":", "x", ">">>,                \* <s:x>    autolink
     <<"(", "<", "s", ":", "x", ">", ")">>,      \* (<s:x>)  angle-bracketed target
     <<"!">>,                                    \* !        image mark
     <<Backtick>>,                               \* `        code mark
     <<" ">>,                                    \* a space
     <<"\n">>,                                   \* a line break
     <<"(", "u", ")">>,                          \* (u)     parenthesised text
     <<"\n", "[", "a", "]", ":", " ", "u">>,     \* [a]: u   definition line
     <<"\n", Backtick, Backtick, Backtick, "\n">> \* ```     fence line
  >>

\* the number of pieces of a document
MaxTokens == 3

RECURSIVE Flatten(_, _)
Flatten(ts, k) ==
  IF k > Len(ts) THEN <<>> ELSE Tokens[ts[k]] \o Flatten(ts, k + 1)

TokenDocs ==
  {Flatten(ts, 1) : ts \in UNION {[1..n -> 1..Len(Tokens)] : n \in 0..MaxTokens}}

\* code: `[x](y)` and real [x](y)
CodeAndReal ==
  <<"c", "o", "d", "e", ":", " ", Backtick, "[", "x", "]", "(", "y", ")",
    Backtick, " ", "a", "n", "d", " ", "r", "e", "a", "l", " ",
    "[", "x", "]", "(", "y", ")">>

\* [1]: https://a.test/z
DefinitionLine ==
  <<"[", "1", "]", ":", " ", "h", "t", "t", "p", "s", ":", "/", "/",
    "a", ".", "t", "e", "s", "t", "/", "z">>

\* [a][A] [a](u)\n[A]: u\n[a]: s:x
DefsAfterLink ==
  <<"[", "a", "]", "[", "A", "]", " ", "[", "a", "]", "(", "u", ")", "\n",
    "[", "A", "]", ":", " ", "u", "\n", "[", "a", "]", ":", " ", "s", ":", "x">>

\* [A]: u\n[a][]\n[a]: s:x
DefsAroundLink ==
  <<"[", "A", "]", ":", " ", "u", "\n", "[", "a", "]", "[", "]", "\n",
    "[", "a", "]", ":", " ", "s", ":", "x">>

\* [a]: u\n[ A ]: s:x\n[b][a ]
DefsBeforeLink ==
  <<"[", "a", "]", ":", " ", "u", "\n",
    "[", " ", "A", " ", "]", ":", " ", "s", ":", "x", "\n",
    "[", "b", "]", "[", "a", " ", "]">>

\* the examples of the specification and of the doc comments, and documents
\* longer than MaxTokens pieces
Examples ==
  { CodeAndReal,
    DefinitionLine,
    \* [Ref][1]\n\n[1]: s:x "T"
    <<"[", "R", "e", "f", "]", "[", "1", "]", "\n", "\n",
      "[", "1", "]", ":", " ", "s", ":", "x", " ", "\"", "T", "\"">>,
    \* See [Docs](s:x) and <s:y>.
    <<"S", "e", "e", " ", "[", "D", "o", "c", "s", "]", "(", "s", ":", "x", ")",
      " ", "a", "n", "d", " ", "<", "s", ":", "y", ">", ".">>,
    \* ~~~\n[a](u)\n~~~ [a](u)
    <<"~", "~", "~", "\n", "[", "a", "]", "(", "u", ")", "\n", "~", "~", "~",
      " ", "[", "a", "]", "(", "u", ")">>,
    \* ```\n[a](u)\n~~~ [a](u): the closing fence does not match the opening one
    <<Backtick, Backtick, Backtick, "\n", "[", "a", "]", "(", "u", ")", "\n",
      "~", "~", "~", " ", "[", "a", "]", "(", "u", ")">>,
    \* <a@b.x> [a](u)
    <<"<", "a", "@", "b", ".", "x", ">", " ", "[", "a", "]", "(", "u", ")">>,
    DefsAfterLink,
    DefsAroundLink,
    DefsBeforeLink,
    \* [a]( ) [a](<u> "T")
    <<"[", "a", "]", "(", " ", ")", " ",
      "[", "a", "]", "(", "<", "u", ">", " ", "\"", "T", "\"", ")">>
  }

Docs == TokenDocs \cup Examples

(***************************************************************************)
(* The run of the agent (agent.ts lines 99-142) and the tool executor      *)
(* (toolexecutor.ts lines 45-70).  A value of JavaScript is written as its  *)
(* JSON text.                                                              *)
(***************************************************************************)
\* the states of a run; the loop goes on for the first two
Statuses ==
  {"queued", "in_progress", "requires_action", "completed", "failed",
   "cancelled"}

\* while (run.status === "queued" || run.status === "in_progress")
whileCondition_RequiresAction(r) ==
  r.status \in {"queued", "in_progress", "requires_action"}

whileCondition(r) == r.status = "queued" \/ r.status = "in_progress"

\* run.requiredAction is not set
NoAction == [type |-> "none", toolCalls |-> <<>>]

\* toolCall.function.name: the tool the executor has and one it has not
ToolNames == {"getCopilotData", "getWeather"}

\* toolCall.function.arguments: none, an object, text that is no JSON
ArgumentStrings == {"", "{\"query\":\"q\"}", "{query"}

\* JSON.parse(toolCall.function.arguments) does not throw
JSONParses(arguments) == arguments \in {"{\"query\":\"q\"}", "{}", "[]", "null"}

\* the tool calls a run can ask for: function calls and one of another type
CallKinds ==
  [type : {"function"}, name : ToolNames, arguments : ArgumentStrings]
    \cup {[type |-> "code_interpreter", name |-> "", arguments |-> ""]}

\* the most tool calls of one required action
MaxToolCalls == 2

CallLists == UNION {[1..n -> CallKinds] : n \in 0..MaxToolCalls}

\* run.requiredAction as the service sends it with requires_action
RequiredActions ==
  {NoAction, [type |-> "other", toolCalls |-> <<>>]}
    \cup {[type |-> "submit_tool_outputs", toolCalls |-> cs] : cs \in CallLists}

\* what runs.get and runs.submitToolOutputs can return
Runs ==
  {[status |-> st, requiredAction |-> NoAction] :
     st \in Statuses \ {"requires_action"}}
    \cup {[status |-> "requires_action", requiredAction |-> ra] :
            ra \in RequiredActions}

\* what getCopilotData returns (response.retrievalHits), or that it throws
\* (the Graph call is rejected, or graphClient is undefined without a token)
ToolOutcomes == {"[{\"webUrl\":\"u\"}]", "[]", "undefined", "null", "throws"}

\* `result ? ... : undefined`: an array is truthy, also the empty one
Truthy(value) == value \notin {"undefined", "null"}

\* the tool of functionTools that find() returns has this name
KnownTools == {"getCopilotData"}

\* invokeTool returns undefined; invokeTool throws
undefined == [toolCallId |-> 0, output |-> "undefined"]
thrown == [toolCallId |-> 0, output |-> "throws"]

\* invokeTool(toolCall), toolCall.id being id, when func, if it is called,
\* gives outcome: undefined, thrown, or the response {toolCallId, output}
\* with output = JSON.stringify(result)
invokeTool(toolCall, id, outcome) ==
  IF toolCall.arguments # "" /\ ~JSONParses(toolCall.arguments)
    THEN undefined
  ELSE IF toolCall.name \notin KnownTools THEN undefined
  ELSE IF outcome = "throws" THEN thrown
  ELSE IF Truthy(outcome) THEN [toolCallId |-> id, output |-> outcome]
  ELSE undefined

\* func is called for this tool call
CallsFunc(toolCall) ==
  /\ toolCall.arguments = "" \/ JSONParses(toolCall.arguments)
  /\ toolCall.name \in KnownTools

\* context.activity.text, the message created on the thread (line 74)
UserTexts == {<<"h", "i">>}

\* the text of a message the agent adds to the thread
AgentTexts == {DefsAroundLink}

(***************************************************************************)
(* The state: the run of _invokeAgent, the answer it hands to the link      *)
(* engine and what the calls on it return.                                 *)
(***************************************************************************)
VARIABLES
  pc,        \* where the caller stands
  markdown,  \* agentAnswer, the argument of both functions
  found,     \* what extractMarkdownLinks pushed, with pass and offset
  excluded,  \* replaceMarkdownLinksWithOrder: its excluded ranges
  hits,      \* replaceMarkdownLinksWithOrder: its hits after the sort
  result,    \* replaceMarkdownLinksWithOrder(markdown)
  again,     \* replaceMarkdownLinksWithOrder(result)
  run,                 \* let run: its status and its requiredAction
  lastCall,            \* the latest call on project.agents.runs
  toolIdx,             \* the place of toolCall in toolCalls
  toolResponses,       \* const toolResponses of the iteration
  toolResponseOutput,  \* let toolResponseOutput
  lastMessage          \* the last message of the thread that has text

runVars ==
  <<run, lastCall, toolIdx, toolResponses, toolResponseOutput, lastMessage>>

vars == <<pc, markdown, found, excluded, hits, result, again, run, lastCall,
          toolIdx, toolResponses, toolResponseOutput, lastMessage>>

\* MarkdownLink[] links (agent.ts line 159)
links == MarkdownLinks(found)

Init ==
  /\ markdown \in Docs
  /\ pc = "answer"
  /\ found = <<>>
  /\ excluded = <<>>
  /\ hits = <<>>
  /\ result = <<>>
  /\ again = <<>>
  /\ run = [status |-> "completed", requiredAction |-> NoAction]
  /\ lastCall = "get"
  /\ toolIdx = 0
  /\ toolResponses = <<>>
  /\ toolResponseOutput = "[]"
  /\ lastMessage = [role |-> "assistant", text |-> markdown]

\* const links = Utils.extractMarkdownLinks(agentAnswer)
ExtractLinks ==
  /\ pc = "answer"
  /\ found' = extractMarkdownLinks(markdown)
  /\ pc' = "extracted"
  /\ UNCHANGED <<markdown, excluded, hits, result, again>>
  /\ UNCHANGED runVars

\* queueTextChunk(Utils.replaceMarkdownLinksWithOrder(agentAnswer))
ReplaceLinks ==
  /\ pc = "extracted"
  /\ \E r \in {replaceMarkdownLinksWithOrder(markdown)} :
        /\ excluded' = r.excluded
        /\ hits' = r.hits
        /\ result' = r.result
  /\ pc' = "replaced"
  /\ UNCHANGED <<markdown, found, again>>
  /\ UNCHANGED runVars

\* the function applied to its own output
ReplaceAgain ==
  /\ pc = "replaced"
  /\ again' = replaceMarkdownLinksWithOrder(result).result
  /\ pc' = "again"
  /\ UNCHANGED <<markdown, found, excluded, hits, result>>
  /\ UNCHANGED runVars

Next == ExtractLinks \/ ReplaceLinks \/ ReplaceAgain

Spec == Init /\ [][Next]_vars

(***************************************************************************)
(* The turn from the creation of the run on (agent.ts lines 99-176)        *)
(***************************************************************************)
linkVars == <<markdown, found, excluded, hits, result, again>>

\* the last message of the thread when it is listed: the message of the user
\* still, or a message of the agent that the service has added since
NextMessages ==
  {lastMessage} \cup {[role |-> "assistant", text |-> t] : t \in AgentTexts}

\* lines 99-100: run = runs.create(...), toolResponseOutput = []
RunInit ==
  /\ pc = "loop"
  /\ markdown = <<>>
  /\ found = <<>>
  /\ excluded = <<>>
  /\ hits = <<>>
  /\ result = <<>>
  /\ again = <<>>
  /\ run \in {r \in Runs : r.requiredAction = NoAction}
  /\ lastCall = "create"
  /\ toolIdx = 0
  /\ toolResponses = <<>>
  /\ toolResponseOutput = "[]"
  /\ lastMessage \in [role : {"user"}, text : UserTexts]

\* lines 103-116: the loop test holds, the wait, run = runs.get(...), and
\* the tests of the required action
Poll ==
  /\ pc = "loop"
  /\ whileCondition(run)
  /\ \E r \in Runs :
        /\ run' = r
        /\ IF /\ r.status = "requires_action"
              /\ r.requiredAction # NoAction
              /\ r.requiredAction.type = "submit_tool_outputs"
             THEN pc' = "tools" /\ toolIdx' = 1 /\ toolResponses' = <<>>
             ELSE pc' = "loop" /\ UNCHANGED <<toolIdx, toolResponses>>
  /\ lastCall' = "get"
  /\ UNCHANGED <<toolResponseOutput, lastMessage>>
  /\ UNCHANGED linkVars

\* lines 118-128: one tool call of the for loop
InvokeTool ==
  /\ pc = "tools"
  /\ toolIdx <= Len(run.requiredAction.toolCalls)
  /\ LET toolCall == run.requiredAction.toolCalls[toolIdx]
     IN IF toolCall.type # "function"
          THEN /\ pc' = pc
               /\ UNCHANGED <<toolResponses, toolResponseOutput>>
          ELSE \E outcome \in (IF CallsFunc(toolCall) THEN ToolOutcomes
                                                     ELSE {"undefined"}) :
                 LET toolResponse == invokeTool(toolCall, toolIdx, outcome)
                 IN IF toolResponse = thrown
                      THEN /\ pc' = "threw"
                           /\ UNCHANGED <<toolResponses, toolResponseOutput>>
                    ELSE IF toolResponse # undefined
                      THEN /\ pc' = pc
                           /\ toolResponseOutput' = toolResponse.output
                           /\ toolResponses' = Append(toolResponses, toolResponse)
                    ELSE /\ pc' = pc
                         /\ UNCHANGED <<toolResponses, toolResponseOutput>>
  /\ toolIdx' = toolIdx + 1
  /\ UNCHANGED <<run, lastCall, lastMessage>>
  /\ UNCHANGED linkVars

\* lines 130-133: run = runs.submitToolOutputs(..., toolResponses)
SubmitToolOutputs ==
  /\ pc = "tools"
  /\ toolIdx > Len(run.requiredAction.toolCalls)
  /\ Len(toolResponses) > 0
  /\ run' \in Runs
  /\ lastCall' = "submitToolOutputs"
  /\ pc' = "loop"
  /\ UNCHANGED <<toolIdx, toolResponses, toolResponseOutput, lastMessage>>
  /\ UNCHANGED linkVars

\* line 130: toolResponses is empty, nothing is submitted
SkipSubmit ==
  /\ pc = "tools"
  /\ toolIdx > Len(run.requiredAction.toolCalls)
  /\ Len(toolResponses) = 0
  /\ pc' = "loop"
  /\ UNCHANGED runVars
  /\ UNCHANGED linkVars

\* lines 103, 138-142: the loop test fails
ExitLoop ==
  /\ pc = "loop"
  /\ ~whileCondition(run)
  /\ pc' = "messages"
  /\ UNCHANGED runVars
  /\ UNCHANGED linkVars

\* lines 145-157: messages.list(...) gives the thread as it is by now, and
\* agentAnswer is the text of its last message
ListMessages ==
  /\ pc = "messages"
  /\ lastMessage' \in NextMessages
  /\ markdown' = lastMessage'.text
  /\ pc' = "answer"
  /\ UNCHANGED <<found, excluded, hits, result, again>>
  /\ UNCHANGED <<run, lastCall, toolIdx, toolResponses, toolResponseOutput>>

RunNext ==
  \/ Poll
  \/ InvokeTool
  \/ SubmitToolOutputs
  \/ SkipSubmit
  \/ ExitLoop
  \/ ListMessages
  \/ ExtractLinks
  \/ ReplaceLinks

RunSpec == RunInit /\ [][RunNext]_vars

\* the step from "answer" or "extracted" on: ExtractLinks and ReplaceLinks
\* are the only steps of the turn that change pc there
StreamSteps ==
  /\ pc \in {"answer", "extracted"}
  /\ pc' \in {"extracted", "replaced"}
  /\ pc' # pc

\* every await of the turn is resumed once the call it waits for has
\* answered, and the code between two awaits runs to the next one
RunFairSpec ==
  /\ RunSpec
  /\ WF_vars(Poll \/ InvokeTool \/ SubmitToolOutputs \/ SkipSubmit
                \/ ExitLoop \/ ListMessages)
  /\ WF_pc(StreamSteps)

(***************************************************************************)
(* Properties                                                              *)
(***************************************************************************)
\* the state right after the call of extractMarkdownLinks, and the state
\* right after the call of replaceMarkdownLinksWithOrder (found, excluded,
\* hits and result do not change afterwards)
Extracted == pc = "extracted"
Replaced == pc = "replaced"

\* offset p lies in span h
Covers(h, p) == h.start <= p /\ p < h.end

\* two spans share an offset
Overlap(a, b) == \E p \in 0..Len(markdown) : Covers(a, p) /\ Covers(b, p)

InSomeHit(hs, p) == \E k \in 1..Len(hs) : Covers(hs[k], p)

\* the markers of the hits k, k+1, ... that start at offset p, by rank
RECURSIVE MarkersAt(_, _, _)
MarkersAt(hs, p, k) ==
  IF k > Len(hs) THEN <<>>
  ELSE (IF hs[k].start = p THEN Marker(k) ELSE <<>>) \o MarkersAt(hs, p, k + 1)

\* md from offset p on with every span of hs replaced by the marker of its
\* rank and every character outside all spans kept
RECURSIVE WithMarkers(_, _, _)
WithMarkers(md, hs, p) ==
  IF p > Len(md) THEN <<>>
  ELSE MarkersAt(hs, p, 1)
       \o (IF p < Len(md) /\ ~InSomeHit(hs, p) THEN <<md[p + 1]>> ELSE <<>>)
       \o WithMarkers(md, hs, p + 1)

\* C1 (as stated): the result is the input with each kept occurrence replaced
\* by the marker [i] of its rank by start offset, every character outside all
\* kept spans unchanged and in order, and nothing else; without kept
\* occurrences the result is the input.
C1_Original ==
  Replaced => /\ result = WithMarkers(markdown, hits, 0)
              /\ (hits = <<>> => result = markdown)

RECURSIVE SumSpans(_, _)
SumSpans(hs, k) ==
  IF k > Len(hs) THEN 0 ELSE (hs[k].end - hs[k].start) + SumSpans(hs, k + 1)

RECURSIVE SumMarkers(_, _)
SumMarkers(hs, k) ==
  IF k > Len(hs) THEN 0 ELSE Len(Marker(k)) + SumMarkers(hs, k + 1)

\* C2 (as stated): the length of the result is the length of the input minus
\* the lengths of all kept spans plus the lengths of all markers, also when
\* hits of different passes overlap.
C2_Original ==
  Replaced =>
    Len(result) = Len(markdown) - SumSpans(hits, 1) + SumMarkers(hits, 1)

\* no "](", no "][" and no "<" in o: nothing an inline link, a reference-style
\* link or an autolink needs
NoLinkSyntax(o) ==
  /\ \A i \in 1..(Len(o) - 1) : ~(o[i] = "]" /\ o[i + 1] \in {"(", "["})
  /\ \A i \in 1..Len(o) : o[i] # "<"

\* C3 (as stated): the rewriter is idempotent, the markers of the first run
\* are never matched as a link by the second run.
C3_Original == pc = "again" => again = result

\* C3 (amended): when the output of the first run holds none of "](", "]["
\* and "<", the second run returns it unchanged; a marker by itself is never
\* matched as a link.
C3_Amended == (pc = "again" /\ NoLinkSyntax(result)) => again = result

\* a first run that put in two markers, and a second run that left them alone
C3_Witness ==
  /\ pc = "again"
  /\ Len(hits) >= 2
  /\ NoLinkSyntax(result)
  /\ again = result

\* the image constructs ![alt](target) and ![alt][id]
imageInlineRE ==
  Cat(<<Lit("!"), Lit("["), Star(NotIn({"]"})), Lit("]"),
        Lit("("), Plus(NotIn({")"})), Lit(")")>>)

imageRefRE ==
  Cat(<<Lit("!"), Lit("["), Plus(NotIn({"]"})), Lit("]"),
        Lit("["), Star(NotIn({"]", "\r", "\n"})), Lit("]")>>)

Ranges(ms) == {Range(ms[k]) : k \in 1..Len(ms)}

ImageSpans(md) ==
  Ranges(MatchAll(md, imageInlineRE, 0)) \cup Ranges(MatchAll(md, imageRefRE, 0))

\* C4 (as stated): no pair of the extractor comes from any part of an image
\* construct, and the rewriter leaves the whole construct as it is: no kept
\* hit touches it.
C4_Original ==
  Replaced =>
    \A im \in ImageSpans(markdown) :
       /\ \A i \in 1..Len(found) : ~Covers(im, found[i].start)
       /\ \A k \in 1..Len(hits) : ~Overlap(hits[k], im)

\* the reference-style links of md that are no images: [text][id], [text][]
RefLinks(md) ==
  LET ms == MatchAll(md, refLinkRe, 0)
  IN {ms[k] : k \in {j \in 1..Len(ms) : ms[j].caps[3] = Undef}}

RefText(md, m) == Trim(Group(md, m, 1))

\* the URL the definitions of md give the link m, <<>> when there is none
RefUrl(md, m) ==
  LET rawId == Trim(Group(md, m, 2))
  IN GetReference(References(md),
                  ToLowerCase(IF rawId # <<>> THEN rawId ELSE RefText(md, m)))

UnresolvedRefLinks(md) == {m \in RefLinks(md) : RefUrl(md, m) = <<>>}

FoundAt(kind, start) ==
  {i \in 1..Len(found) : found[i].kind = kind /\ found[i].start = start}

\* C5 (as stated): a reference-style link without a matching definition is
\* still emitted by the extractor, with its text as title and an empty url.
C5_Original ==
  Extracted =>
    \A m \in UnresolvedRefLinks(markdown) :
       \E i \in FoundAt("reference", m.index) :
          found[i].url = <<>> /\ found[i].title = RefText(markdown, m)

\* C5 (amended): a reference-style link without a matching definition
\* contributes no pair, like an inline link whose parsed URL is empty: no
\* emitted pair has an empty url; a resolved reference-style link is emitted
\* with the URL of its definition; the rewriter replaces the unresolved link
\* by a marker all the same, unless it touches an excluded range.
C5_Amended ==
  Replaced =>
    /\ \A m \in UnresolvedRefLinks(markdown) :
          /\ FoundAt("reference", m.index) = {}
          /\ (\A k \in 1..Len(excluded) : ~Overlap(Range(m), excluded[k]))
                => \E k \in 1..Len(hits) : hits[k] = Range(m)
    /\ \A m \in RefLinks(markdown) \ UnresolvedRefLinks(markdown) :
          \E i \in FoundAt("reference", m.index) :
             found[i].url = RefUrl(markdown, m)
    /\ \A i \in 1..Len(found) : found[i].url # <<>>

\* an unresolved reference-style link that the rewriter replaced, next to a
\* link the extractor did emit
C5_Witness ==
  /\ Replaced
  /\ \E m \in UnresolvedRefLinks(markdown) :
        \E k \in 1..Len(hits) : hits[k] = Range(m)
  /\ found # <<>>

\* C6 (as stated): the pairs are listed in document order, whatever the kind
\* of link: a link that starts earlier comes earlier.
C6_Original ==
  Extracted =>
    \A i, j \in 1..Len(found) :
       found[i].start < found[j].start => i < j

\* o holds w as one piece
Holds(o, w) ==
  \E q \in 0..(Len(o) - Len(w)) : Slice(o, q, q + Len(w)) = w

\* code: `[x](y)` and real [1]
CodeAndRealOut ==
  <<"c", "o", "d", "e", ":", " ", Backtick, "[", "x", "]", "(", "y", ")",
    Backtick, " ", "a", "n", "d", " ", "r", "e", "a", "l", " ", "[", "1", "]">>

\* C7: no kept hit shares an offset with an excluded range (fenced block,
\* inline code, definition line), and the text of every excluded range stands
\* unchanged in the result; the two examples of the specification come out
\* as it says.
C7_ExcludedUntouched ==
  Replaced =>
    /\ \A k \in 1..Len(hits) : \A j \in 1..Len(excluded) :
          ~Overlap(hits[k], excluded[j])
    /\ \A j \in 1..Len(excluded) :
          Holds(result, Slice(markdown, excluded[j].start, excluded[j].end))
    /\ (markdown = CodeAndReal => result = CodeAndRealOut)
    /\ (markdown = DefinitionLine => result = markdown)

\* the links the rewriter looks for, images left out
LinkMatches(md) ==
  LET il == MatchAll(md, inlineLinkRE, 0)
      rl == MatchAll(md, refLinkRE, 0)
      al == MatchAll(md, autolinkRE, 0)
  IN {Range(il[k]) : k \in {j \in 1..Len(il) : md[il[j].index + 1] # "!"}}
     \cup {Range(rl[k]) : k \in {j \in 1..Len(rl) : md[rl[j].index + 1] # "!"}}
     \cup {Range(al[k]) : k \in {j \in 1..Len(al) :
              \/ Test(looksLikeUrlRE, Group(md, al[j], 1))
              \/ Test(looksLikeEmailRE, Group(md, al[j], 1))}}

Touched(h) == \E j \in 1..Len(excluded) : Overlap(h, excluded[j])

\* a link inside an excluded range was dropped and another link was replaced
C7_Witness ==
  /\ Replaced
  /\ hits # <<>>
  /\ \E h \in LinkMatches(markdown) : Touched(h)

\* the fence c c c stands at offset f
FenceAt(md, f, c) ==
  f + 3 <= Len(md) /\ \A d \in 1..3 : md[f + d] = c

FenceChars == {Backtick, "~"}

\* the offsets of a fence that is the only one of its kind in the document
LoneFences(md) ==
  {f \in 0..Len(md) :
     \E c \in FenceChars :
        /\ FenceAt(md, f, c)
        /\ \A g \in 0..Len(md) : FenceAt(md, g, c) => g = f}

\* C8 (as stated): everything from an opening fence that is never closed to
\* the end of the document is excluded, no link after it is replaced.
C8_Original ==
  Replaced =>
    \A f \in LoneFences(markdown) :
       \A k \in 1..Len(hits) : hits[k].start < f

\* C8 (amended): an opening fence that is never closed (here: the only fence
\* of its kind in the document) yields no excluded range of its own (at most
\* the inline code `` that two of its backticks form), and a link after it is
\* replaced like any other: it is kept unless it touches an excluded range.
C8_Amended ==
  Replaced =>
    \A f \in LoneFences(markdown) :
       /\ \A j \in 1..Len(excluded) :
             excluded[j].start = f => excluded[j].end <= f + 3
       /\ \A h \in LinkMatches(markdown) :
             (h.start > f /\ ~Touched(h)) => \E k \in 1..Len(hits) : hits[k] = h

\* a link after a fence that is never closed got its marker
C8_Witness ==
  /\ Replaced
  /\ \E f \in LoneFences(markdown) :
        \E k \in 1..Len(hits) :
           /\ hits[k].start > f
           /\ Holds(result, Marker(k))

\* C9 (as stated): as many pairs as markers, and the i-th pair is the link
\* that marker [i] replaced.
C9_Original ==
  Replaced =>
    /\ Len(found) = Len(hits)
    /\ \A i \in 1..Len(found) : found[i].start = hits[i].start

PassRank(kind) ==
  CASE kind = "inline" -> 1
    [] kind = "autolink" -> 2
    [] kind = "reference" -> 3

\* C10: the result lists the inline links, then the autolinks, then the
\* reference-style links; inside a group by ascending offset, across groups
\* no matter the offset.  An autolink pair starts at a "<", the others at
\* a "[".
C10_PassOrder ==
  Extracted =>
    /\ \A i, j \in 1..Len(found) :
          i < j =>
            /\ PassRank(found[i].kind) <= PassRank(found[j].kind)
            /\ found[i].kind = found[j].kind => found[i].start < found[j].start
    /\ \A i \in 1..Len(found) :
          markdown[found[i].start + 1] =
             (IF found[i].kind = "autolink" THEN "<" ELSE "[")

\* an autolink that stands before an inline link in the text and after it in
\* the result
C10_Witness ==
  /\ Extracted
  /\ \E i, j \in 1..Len(found) :
        /\ i < j
        /\ found[i].kind = "inline"
        /\ found[j].kind = "autolink"
        /\ found[j].start < found[i].start

\* C11 (as stated): after the exclusion filter and the sort, the kept hits
\* are pairwise disjoint and stand in strictly increasing order of start: a
\* hit ends no later than the next one starts, also when a construct is
\* matched by more than one pass.
C11_Original ==
  Replaced =>
    /\ \A k \in 1..(Len(hits) - 1) :
          /\ hits[k].end <= hits[k + 1].start
          /\ hits[k].start < hits[k + 1].start
    /\ \A j, k \in 1..Len(hits) : j # k => ~Overlap(hits[j], hits[k])

\* the reference definitions of md, in text order
Definitions(md) == MatchAll(md, refDefRe, 0)

\* the identifier of a definition and of a reference-style link, trimmed and
\* lower-cased; [text][] has its text as identifier
DefId(md, d) == ToLowerCase(Trim(Group(md, d, 1)))

LinkId(md, m) ==
  LET rawId == Trim(Group(md, m, 2))
  IN ToLowerCase(IF rawId # <<>> THEN rawId ELSE RefText(md, m))

\* the places in Definitions(md) of the definitions of id
DefinitionsOf(md, id) ==
  {k \in 1..Len(Definitions(md)) : DefId(md, Definitions(md)[k]) = id}

Last(ks) == CHOOSE k \in ks : \A j \in ks : j <= k

\* the reference-style pairs of the result, as <<title, url>>
ReferencePairs ==
  {<<found[i].title, found[i].url>> :
     i \in {j \in 1..Len(found) : found[j].kind = "reference"}}

\* C12: a reference-style link with at least one definition of its identifier
\* (compared trimmed and without case) is emitted with the URL of the last
\* such definition of the whole document, wherever the link stands; a link
\* without one is not emitted.  The three example documents, with the link
\* before, between and after the two definitions of its identifier, all give
\* the URL s:x of the second definition.
C12_LastWins ==
  Extracted =>
    /\ \A m \in RefLinks(markdown) :
          LET ks == DefinitionsOf(markdown, LinkId(markdown, m))
          IN IF ks = {} THEN FoundAt("reference", m.index) = {}
             ELSE /\ FoundAt("reference", m.index) # {}
                  /\ \A i \in FoundAt("reference", m.index) :
                        /\ found[i].title = RefText(markdown, m)
                        /\ found[i].url =
                             Trim(Group(markdown, Definitions(markdown)[Last(ks)], 2))
    /\ (markdown \in {DefsAfterLink, DefsAroundLink}
          => ReferencePairs = {<< <<"a">>, <<"s", ":", "x">> >>})
    /\ (markdown = DefsBeforeLink
          => ReferencePairs = {<< <<"b">>, <<"s", ":", "x">> >>})

\* a link between two definitions of its identifier that differ in case and
\* in URL, emitted with the URL of the second
C12_Witness ==
  /\ Extracted
  /\ \E m \in RefLinks(markdown) :
        \E j, k \in DefinitionsOf(markdown, LinkId(markdown, m)) :
           LET ds == Definitions(markdown)
           IN /\ ds[j].index < m.index
              /\ m.index < ds[k].index
              /\ Group(markdown, ds[j], 1) # Group(markdown, ds[k], 1)
              /\ Group(markdown, ds[j], 2) # Group(markdown, ds[k], 2)
              /\ \E i \in FoundAt("reference", m.index) :
                    found[i].url = Group(markdown, ds[k], 2)

\* the for loop over the tool calls is through and no call gave a response
NoResponse ==
  /\ pc = "tools"
  /\ toolIdx > Len(run.requiredAction.toolCalls)
  /\ toolResponses = <<>>

\* the answer has been streamed (queueTextChunk, line 175)
Streamed == pc = "replaced"

\* a step of the loop that calls runs.get
Polls == pc = "loop" /\ pc' \in {"loop", "tools"}

\* a step that calls runs.submitToolOutputs
Submits == pc = "tools" /\ lastCall' = "submitToolOutputs"

\* C13: (1) the loop polls only while the status is queued or in_progress,
\* and while it is, the loop is not left; (2) tool outputs are submitted only
\* with at least one response, each of a function tool call of the required
\* action; (3) when no tool call gave a response, nothing is submitted and
\* the run stays as it is, in requires_action; the loop is then left with the
\* run unchanged; (4) from there the turn goes on: the last message of the
\* thread is read, its links are extracted and it is streamed, the run still
\* in requires_action.
C13_RunLoop ==
  /\ [][Polls => run.status \in {"queued", "in_progress"}]_vars
  /\ [][(pc = "loop" /\ run.status \in {"queued", "in_progress"})
          => pc' \in {"loop", "tools"}]_vars
  /\ [][Submits =>
          /\ toolResponses # <<>>
          /\ \A i \in 1..Len(toolResponses) :
                LET id == toolResponses[i].toolCallId
                IN /\ id \in 1..Len(run.requiredAction.toolCalls)
                   /\ run.requiredAction.toolCalls[id].type = "function"]_vars
  /\ [][NoResponse =>
          /\ pc' = "loop"
          /\ run' = run
          /\ run.status = "requires_action"
          /\ lastCall' = "get"]_vars
  /\ [][(pc = "loop" /\ run.status \notin {"queued", "in_progress"})
          => (pc' = "messages" /\ run' = run /\ lastCall' = lastCall)]_vars
  /\ NoResponse ~>
       (/\ Streamed
        /\ run.status = "requires_action"
        /\ lastCall = "get"
        /\ markdown = lastMessage.text
        /\ found = extractMarkdownLinks(lastMessage.text))

\* a run that asked for a function tool call, got no response to submit, and
\* a turn that streamed the last message with the run still in
\* requires_action
C13_Witness ==
  /\ Streamed
  /\ run.status = "requires_action"
  /\ lastCall = "get"
  /\ toolResponses = <<>>
  /\ \E i \in 1..Len(run.requiredAction.toolCalls) :
        run.requiredAction.toolCalls[i].type = "function"
  /\ found # <<>>
  /\ markdown = lastMessage.text

====
